---- MODULE Spec2Model ----
(***************************************************************************)
(* Model of team-plus: the application reducer (contexts/appReducer.ts),   *)
(* the persistence of its state by AppProvider (contexts/AppContext.tsx,   *)
(* hooks/useLocalStorage.ts) and the useFilter hook (hooks/useFilter.ts).  *)
(*                                                                         *)
(* Fields of Member, Team, Role and Skill that no modelled operation reads *)
(* or writes (description, createdAt, color, availability ...) are left    *)
(* out of the records; every field the reducer touches is kept.            *)
(***************************************************************************)
EXTENDS Integers, Sequences, FiniteSets, TLC

\* Number of user dispatches in one behaviour; new Date() is the dispatch count.
MaxNow == 2

MemberIds == {"m1", "m2", "m3"}
TeamIds == {"t1", "t2"}
RoleIds == {"r1", "r2"}
SkillIds == {"s1", "s2"}

\* The value of an optional property that is present but undefined.
Undefined == "undefined"
\* localStorage.getItem returns null when the key was never written.
NoValue == [kind |-> "null"]
\* A stored string that JSON.parse rejects.
Corrupt == [kind |-> "corrupt"]

VARIABLES
    state,          \* the reducer state held by useReducer
    storage,        \* localStorage['team-plus-state']
    stored0,        \* history: the stored value when the app started
    pc,             \* position of AppProvider's mount effects
    loadResult,     \* the value loadFromStorage resolved with, awaited by loadState
    effectPending,  \* the state changed and its save effect has not run yet
    now,            \* the clock read by new Date()
    lastAction,     \* history: the action dispatched last
    prev,           \* history: the state that action was applied to
    items,          \* useFilter: the items the hook is given
    activeFilters,  \* useFilter: the activeFilters state
    filteredItems,  \* useFilter: the memoized filteredItems
    lastApplied,    \* history: per filter id, the value applied since its last removal
    lastOp,         \* history: what the last call on the hook did
    searchItems,    \* useSearch: the items argument
    searchTerm,     \* useSearch: the searchTerm argument
    searchConfig,   \* useSearch: the config argument
    searchResult,   \* useSearch: the memoized result
    listItems,      \* useListingView: the items argument
    viewMode,       \* useListingView: the viewMode state
    page,           \* useListingView: the page state
    rowsPerPage,    \* useListingView: the rowsPerPage state
    listSearchTerm, \* useListingView: the searchTerm state
    paginatedItems, \* useListingView: the memoized paginatedItems
    listOp,         \* history: the handler of useListingView called last
    pageBefore,     \* history: the page when that handler was called
    formKind,       \* which form renders useForm: MemberForm or TeamForm
    formOpen,       \* the open prop of the form dialog
    values,         \* useForm: the values state
    errors,         \* useForm: the errors state
    touched,        \* useForm: the touched state
    isSubmitting,   \* useForm: the isSubmitting state
    lastSubmit,     \* history: when the last call on the form was handleSubmit, its
                    \* values and whether it called onSubmit
    saved,          \* history: the argument of the last call of onSave
    dialogTeam,     \* TeamAssignment: the team prop
    teamMembers,    \* TeamAssignment: the teamMembers prop
    hasIrrelevant,  \* TeamAssignment: whether the irrelevant-members warning is shown
    sizeWarning,    \* TeamAssignment: the size warning shown, if any
    lastWrite,      \* history: the state the save effect last tried to store, and
                    \* whether setItem threw
    atExit          \* history: lastWrite when the app was last closed

appVars == <<state, storage, stored0, pc, loadResult, effectPending, now, lastAction, prev>>

filterVars == <<items, activeFilters, filteredItems, lastApplied, lastOp>>

searchVars == <<searchItems, searchTerm, searchConfig, searchResult>>

listVars ==
    <<listItems, viewMode, page, rowsPerPage, listSearchTerm, paginatedItems,
      listOp, pageBefore>>

formVars ==
    <<formKind, formOpen, values, errors, touched, isSubmitting, lastSubmit, saved>>

dialogVars == <<dialogTeam, teamMembers, hasIrrelevant, sizeWarning>>

persistVars == <<lastWrite, atExit>>

\* The variables the actions of AppProvider and useFilter leave alone.
pageVars == <<searchVars, listVars, formVars, dialogVars, persistVars>>

\* The variables useSearch leaves alone.
notSearchVars == <<appVars, filterVars, listVars, formVars, dialogVars, persistVars>>

\* The variables useListingView leaves alone.
notListVars == <<appVars, filterVars, searchVars, formVars, dialogVars, persistVars>>

\* The variables useForm leaves alone.
notFormVars == <<appVars, filterVars, searchVars, listVars, dialogVars, persistVars>>

\* The variables TeamAssignment leaves alone.
notDialogVars == <<appVars, filterVars, searchVars, listVars, formVars, persistVars>>

vars == <<appVars, filterVars, pageVars>>

----------------------------------------------------------------------------
(* Records (Record<Id, T>) as functions on the set of their keys.          *)

EmptyMap == [k \in {} |-> k]

\* { ...map, [k]: v }
Put(map, k, v) == [x \in (DOMAIN map) \cup {k} |-> IF x = k THEN v ELSE map[x]]

\* const { [k]: _, ...rest } = map
Without(map, k) == [x \in (DOMAIN map) \ {k} |-> map[x]]

\* array.filter((id) => id !== x)
FilterOut(seq, x) == SelectSeq(seq, LAMBDA id : id # x)

\* array.includes(x)
Includes(seq, x) == \E i \in 1..Len(seq) : seq[i] = x

Member(id, name, roleId, skillIds, email, updatedAt) ==
    [id |-> id, name |-> name, roleId |-> roleId, skillIds |-> skillIds,
     email |-> email, updatedAt |-> updatedAt]

Team(id, name, memberIds, updatedAt) ==
    [id |-> id, name |-> name, updatedAt |-> updatedAt, memberIds |-> memberIds]

Role(id, name) == [id |-> id, name |-> name]

\* { type, payload }
Action(type, payload) == [type |-> type, payload |-> payload]

\* { memberId, teamId }
Assignment(memberId, teamId) == [memberId |-> memberId, teamId |-> teamId]

Skill(id, name) == [id |-> id, name |-> name]

initialState ==
    [members |-> EmptyMap, teams |-> EmptyMap, roles |-> EmptyMap,
     skills |-> EmptyMap, darkMode |-> FALSE, language |-> "en"]

----------------------------------------------------------------------------
(* appReducer, one operator per case of the switch.                        *)

\* Mutant: the other members are not spread into the new collection.
MutAddMemberNoSpread(s, payload) ==
    [s EXCEPT !.members = [k \in {payload.id} |-> payload]]

ReduceAddMember(s, payload) ==
    [s EXCEPT !.members = Put(s.members, payload.id, payload)]

\* Mutant: the member is deleted but stays listed in the teams.
MutDeleteMemberKeepsTeams(s, payload, ts) ==
    [s EXCEPT !.members = Without(s.members, payload)]

ReduceDeleteMember(s, payload, ts) ==
    LET teamIdsOf == {s.teams[x].id : x \in DOMAIN s.teams}
        teamOf(k) == s.teams[CHOOSE x \in DOMAIN s.teams : s.teams[x].id = k]
        updatedTeams ==
            [k \in teamIdsOf |->
                [teamOf(k) EXCEPT !.memberIds = FilterOut(@, payload),
                                  !.updatedAt = ts]]
    IN  [s EXCEPT !.members = Without(s.members, payload),
                  !.teams = updatedTeams]

ReduceAddTeam(s, payload) ==
    [s EXCEPT !.teams = Put(s.teams, payload.id, payload)]

ReduceDeleteTeam(s, payload) ==
    [s EXCEPT !.teams = Without(s.teams, payload)]

ReduceAddRole(s, payload) ==
    [s EXCEPT !.roles = Put(s.roles, payload.id, payload)]

ReduceDeleteRole(s, payload) ==
    [s EXCEPT !.roles = Without(s.roles, payload)]

ReduceAddSkill(s, payload) ==
    [s EXCEPT !.skills = Put(s.skills, payload.id, payload)]

\* Mutant: the skill is deleted but stays listed by the members.
MutDeleteSkillKeepsMembers(s, payload, ts) ==
    [s EXCEPT !.skills = Without(s.skills, payload)]

ReduceDeleteSkill(s, payload, ts) ==
    LET memberIdsOf == {s.members[x].id : x \in DOMAIN s.members}
        memberOf(k) == s.members[CHOOSE x \in DOMAIN s.members : s.members[x].id = k]
        updatedMembers ==
            [k \in memberIdsOf |->
                [memberOf(k) EXCEPT !.skillIds = FilterOut(@, payload),
                                    !.updatedAt = ts]]
    IN  [s EXCEPT !.skills = Without(s.skills, payload),
                  !.members = updatedMembers]

\* Mutant: no test whether the member is already assigned.
MutAssignWithoutCheck(s, payload, ts) ==
    IF payload.teamId \notin DOMAIN s.teams THEN s
    ELSE LET team == s.teams[payload.teamId] IN
         [s EXCEPT !.teams = Put(s.teams, payload.teamId,
              [team EXCEPT !.memberIds = Append(@, payload.memberId),
                           !.updatedAt = ts])]

ReduceAssignMemberToTeam(s, payload, ts) ==
    IF payload.teamId \notin DOMAIN s.teams THEN s
    ELSE LET team == s.teams[payload.teamId] IN
         IF Includes(team.memberIds, payload.memberId) THEN s
         ELSE [s EXCEPT !.teams = Put(s.teams, payload.teamId,
                    [team EXCEPT !.memberIds = Append(@, payload.memberId),
                                 !.updatedAt = ts])]

\* Mutant: the member is removed from every team, not only from payload.teamId.
MutRemoveFromEveryTeam(s, payload, ts) ==
    IF payload.teamId \notin DOMAIN s.teams THEN s
    ELSE [s EXCEPT !.teams =
              [k \in DOMAIN s.teams |->
                  [s.teams[k] EXCEPT !.memberIds = FilterOut(@, payload.memberId),
                                     !.updatedAt = ts]]]

ReduceRemoveMemberFromTeam(s, payload, ts) ==
    IF payload.teamId \notin DOMAIN s.teams THEN s
    ELSE LET team == s.teams[payload.teamId] IN
         [s EXCEPT !.teams = Put(s.teams, payload.teamId,
              [team EXCEPT !.memberIds = FilterOut(@, payload.memberId),
                           !.updatedAt = ts])]

ReduceAssignMembersToTeam(s, payload, ts) ==
    IF payload.teamId \notin DOMAIN s.teams THEN s
    ELSE LET team == s.teams[payload.teamId]
             newMemberIds ==
                 SelectSeq(payload.memberIds,
                           LAMBDA id : ~Includes(team.memberIds, id))
         IN  [s EXCEPT !.teams = Put(s.teams, payload.teamId,
                  [team EXCEPT !.memberIds = @ \o newMemberIds,
                               !.updatedAt = ts])]

ReduceToggleDarkMode(s) == [s EXCEPT !.darkMode = ~s.darkMode]

ReduceSetLanguage(s, payload) == [s EXCEPT !.language = payload]

\* Mutant: the payload is taken as it is, without defaults for roles and skills.
MutLoadStateAsIs(payload) == payload

\* { ...payload, roles: payload.roles || {}, skills: payload.skills || {} }
ReduceLoadState(payload) ==
    [f \in (DOMAIN payload) \cup {"roles", "skills"} |->
        IF f \in {"roles", "skills"} /\ f \notin DOMAIN payload
        THEN EmptyMap
        ELSE payload[f]]

appReducer(s, action, ts) ==
    CASE action.type \in {"ADD_MEMBER", "UPDATE_MEMBER"} -> ReduceAddMember(s, action.payload)
      [] action.type = "DELETE_MEMBER" -> ReduceDeleteMember(s, action.payload, ts)
      [] action.type \in {"ADD_TEAM", "UPDATE_TEAM"} -> ReduceAddTeam(s, action.payload)
      [] action.type = "DELETE_TEAM" -> ReduceDeleteTeam(s, action.payload)
      [] action.type \in {"ADD_ROLE", "UPDATE_ROLE"} -> ReduceAddRole(s, action.payload)
      [] action.type = "DELETE_ROLE" -> ReduceDeleteRole(s, action.payload)
      [] action.type \in {"ADD_SKILL", "UPDATE_SKILL"} -> ReduceAddSkill(s, action.payload)
      [] action.type = "DELETE_SKILL" -> ReduceDeleteSkill(s, action.payload, ts)
      [] action.type = "ASSIGN_MEMBER_TO_TEAM" -> ReduceAssignMemberToTeam(s, action.payload, ts)
      [] action.type = "REMOVE_MEMBER_FROM_TEAM" -> ReduceRemoveMemberFromTeam(s, action.payload, ts)
      [] action.type = "ASSIGN_MEMBERS_TO_TEAM" -> ReduceAssignMembersToTeam(s, action.payload, ts)
      [] action.type = "TOGGLE_DARK_MODE" -> ReduceToggleDarkMode(s)
      [] action.type = "SET_LANGUAGE" -> ReduceSetLanguage(s, action.payload)
      [] action.type = "LOAD_STATE" -> ReduceLoadState(action.payload)
      [] action.type = "RESET_STATE" -> initialState
      [] OTHER -> s

----------------------------------------------------------------------------
(* useLocalStorage: JSON.stringify / JSON.parse and the storage slot.      *)

\* JSON.stringify leaves out a property whose value is undefined; email is the
\* one optional property of the modelled records.
DropUndefined(rec) ==
    LET kept == {f \in DOMAIN rec : ~(f = "email" /\ rec[f] = Undefined)}
    IN  [f \in kept |-> rec[f]]

Stringify(s) ==
    LET ms == s.members
    IN  [s EXCEPT !.members = [k \in DOMAIN ms |-> DropUndefined(ms[k])]]

\* saveToStorage(data): the value localStorage holds afterwards.
SaveToStorage(data) == [kind |-> "json", value |-> Stringify(data)]

\* loadFromStorage(): null when nothing is stored or the text does not parse.
LoadFromStorage(store) ==
    IF store.kind = "json"
    THEN [kind |-> "state", value |-> store.value]
    ELSE [kind |-> "null"]

----------------------------------------------------------------------------
(* States an earlier session of the program saved.                         *)

SavedTeamsNone == EmptyMap

SavedTeamsOne == [k \in {"t1"} |-> Team("t1", "Core", <<"m1", "m2", "m3">>, 0)]

SavedTeamsTwo ==
    [k \in {"t1", "t2"} |->
        IF k = "t1" THEN Team("t1", "Core", <<"m2", "m1">>, 0)
        ELSE Team("t2", "Web", <<"m1", "m3", "m2">>, 0)]

SavedMembersNone == EmptyMap

SavedMembersTwo ==
    [k \in {"m1", "m2"} |->
        IF k = "m1"
        THEN Member("m1", "Ann", "r1", <<"s1", "s2">>, "ann@x.io", 0)
        ELSE DropUndefined(Member("m2", "Bob", "r2", <<"s2", "s1">>, Undefined, 0))]

SavedRoles ==
    [k \in RoleIds |-> IF k = "r1" THEN Role("r1", "Dev") ELSE Role("r2", "Ops")]

SavedSkills ==
    [k \in SkillIds |-> IF k = "s1" THEN Skill("s1", "JS") ELSE Skill("s2", "Go")]

\* States saved by the current version: all six properties are present.
SavedStates ==
    {[members |-> ms, teams |-> ts,
      roles |-> IF ms = EmptyMap THEN EmptyMap ELSE SavedRoles,
      skills |-> IF ms = EmptyMap THEN EmptyMap ELSE SavedSkills,
      darkMode |-> (ts = SavedTeamsTwo),
      language |-> IF ts = SavedTeamsOne THEN "de" ELSE "en"] :
        ms \in {SavedMembersNone, SavedMembersTwo},
        ts \in {SavedTeamsNone, SavedTeamsOne, SavedTeamsTwo}}

\* States saved before roles and skills were collections of the state.
LegacyStates ==
    {[members |-> SavedMembersTwo, teams |-> ts, darkMode |-> TRUE, language |-> "de"] :
        ts \in {SavedTeamsNone, SavedTeamsTwo}}

InitialStorage ==
    {NoValue, Corrupt}
    \cup {[kind |-> "json", value |-> s] : s \in SavedStates}
    \cup {[kind |-> "json", value |-> s] : s \in LegacyStates}

----------------------------------------------------------------------------
(* Payloads the hooks and components dispatch.                             *)

MemberPayloads(ts) ==
    {Member(id, "Cy", "r1", <<"s2", "s1">>, Undefined, ts) : id \in {"m1", "m2"}}
    \cup {Member(id, "Di", "r2", <<"s1">>, "di@x.io", ts) : id \in {"m1", "m2"}}

TeamPayloads(ts) ==
    {Team(id, "Ops", <<>>, ts) : id \in TeamIds}
    \cup {Team(id, "Lab", <<"m3", "m1">>, ts) : id \in TeamIds}

RolePayloads == {Role(id, "Lead") : id \in RoleIds}

SkillPayloads == {Skill(id, "TS") : id \in SkillIds}

AssignmentPayloads == {Assignment(m, t) : m \in MemberIds, t \in TeamIds}

----------------------------------------------------------------------------
(* useFilter, with the role and skills definitions of useMemberFilters.    *)

\* The item lists the hook is given have at most this many items.
MaxItems == 2

\* MemberWithNames, with the properties the filter conditions read.
Item(id, roleName, skillNames) ==
    [id |-> id, roleName |-> roleName, skillNames |-> skillNames]

ItemPool ==
    {Item("m1", "Dev", <<"JS", "Go">>),
     Item("m2", "Des", <<"Go">>),
     Item("m3", "Dev", <<>>)}

RECURSIVE ItemLists(_)
\* The lists of n distinct items of the pool.
ItemLists(n) ==
    IF n = 0 THEN {<<>>}
    ELSE UNION {{Append(l, i) : i \in ItemPool \ {l[k] : k \in 1..Len(l)}} :
                   l \in ItemLists(n - 1)}

\* FilterValue = string | string[] | number | boolean | null, tagged by its type.
StringValue(str) == [kind |-> "string", value |-> str]

ArrayValue(arr) == [kind |-> "array", value |-> arr]

NullValue == [kind |-> "null"]

\* The history value of a filter id that is not applied.
NotApplied == [kind |-> "none"]

FilterValues ==
    {NullValue, StringValue("Dev"), StringValue("Go"),
     ArrayValue(<<>>), ArrayValue(<<"Dev", "Go">>), ArrayValue(<<"Des", "JS">>)}

\* The ids of filterDefinitions.
DefinedFilterIds == {"role", "skills"}

\* The ids applyFilter is called with; status has no definition.
FilterIds == DefinedFilterIds \cup {"status"}

\* { id, value }
ActiveFilter(id, value) == [id |-> id, value |-> value]

\* !value || (Array.isArray(value) && value.length === 0)
IsBlank(value) ==
    \/ value.kind = "null"
    \/ value.kind = "string" /\ value.value = ""
    \/ value.kind = "array" /\ Len(value.value) = 0

\* The condition of the role definition.
RoleCondition(member, value) ==
    IF IsBlank(value) THEN TRUE
    ELSE IF value.kind = "array" THEN Includes(value.value, member.roleName)
    ELSE member.roleName = value.value

\* The condition of the skills definition.
SkillsCondition(member, value) ==
    IF IsBlank(value) THEN TRUE
    ELSE IF value.kind = "array"
         THEN \E k \in 1..Len(value.value) : Includes(member.skillNames, value.value[k])
    ELSE Includes(member.skillNames, value.value)

\* definition.condition(item, value) for the definition with this id.
Condition(id, item, value) ==
    CASE id = "role" -> RoleCondition(item, value)
      [] id = "skills" -> SkillsCondition(item, value)

\* Mutant: an item passes when some active filter accepts it.
MutFilteredItemsSome(its, filters) ==
    IF Len(filters) = 0 THEN its
    ELSE SelectSeq(its, LAMBDA item :
             \E k \in 1..Len(filters) :
                 IF filters[k].id \notin DefinedFilterIds THEN TRUE
                 ELSE Condition(filters[k].id, item, filters[k].value))

\* The filteredItems memo.
FilteredItems(its, filters) ==
    IF Len(filters) = 0 THEN its
    ELSE SelectSeq(its, LAMBDA item :
             \A k \in 1..Len(filters) :
                 IF filters[k].id \notin DefinedFilterIds THEN TRUE
                 ELSE Condition(filters[k].id, item, filters[k].value))

\* Mutant: the filter is appended whether or not its id is active.
MutApplyAlwaysAppends(previous, filterId, value) ==
    Append(previous, ActiveFilter(filterId, value))

\* The updater applyFilter passes to setActiveFilters.
ApplyUpdate(previous, filterId, value) ==
    IF \E k \in 1..Len(previous) : previous[k].id = filterId
    THEN [k \in 1..Len(previous) |->
             IF previous[k].id = filterId THEN ActiveFilter(filterId, value)
             ELSE previous[k]]
    ELSE Append(previous, ActiveFilter(filterId, value))

\* The updater removeFilter passes to setActiveFilters.
RemoveUpdate(previous, filterId) == SelectSeq(previous, LAMBDA f : f.id # filterId)

----------------------------------------------------------------------------
(* useSearch, with the search configuration of the Members page.  A string *)
(* is the sequence of its characters.                                      *)

\* The item lists useSearch is given have at most this many items.
MaxSearchItems == 2

\* The search terms have at most this many characters.
MaxTermLen == 2

\* The characters a search term is typed from.
TermChars == {"d", "E", " "}

\* The property values of an item, tagged by their JavaScript type.
JsString(chars) == [kind |-> "string", value |-> chars]

JsArray(elements) == [kind |-> "array", value |-> elements]

JsNull == [kind |-> "null"]

JsUndefined == [kind |-> "undefined"]

\* MemberWithNames, with the properties a search reads.
SearchItem(id, name, email, roleName, skillNames) ==
    [id |-> id, name |-> name, email |-> email, roleName |-> roleName,
     skillNames |-> skillNames]

SearchItemPool ==
    {SearchItem("m1", JsString(<<"E", "d", " ", "D">>), JsString(<<"e", "@", "x">>),
                JsString(<<"Q", "A">>), JsArray(<< <<"J", "S">> >>)),
     SearchItem("m2", JsString(<<"J", "o">>), JsNull,
                JsString(<<"D", "e", "v">>), JsArray(<< <<"G", "o">>, <<"R", "e", "d">> >>)),
     SearchItem("m3", JsString(<<"A", "l">>), JsUndefined,
                JsString(<<"E", "D">>), JsArray(<<>>)),
     SearchItem("m4", JsString(<<"J", "e", "d">>), JsString(<<"D", "@", "e", "d">>),
                JsString(<<"O", "p", "s">>), JsArray(<< <<"e", " ", "E">> >>))}

RECURSIVE SearchItemLists(_)
\* The lists of n distinct items of the pool.
SearchItemLists(n) ==
    IF n = 0 THEN {<<>>}
    ELSE UNION {{Append(l, i) : i \in SearchItemPool \ {l[k] : k \in 1..Len(l)}} :
                   l \in SearchItemLists(n - 1)}

RECURSIVE SearchTermsOfLen(_)
SearchTermsOfLen(n) ==
    IF n = 0 THEN {<<>>}
    ELSE {Append(s, c) : s \in SearchTermsOfLen(n - 1), c \in TermChars}

SearchTerms == UNION {SearchTermsOfLen(n) : n \in 0..MaxTermLen}

\* SearchConfig<T>
SearchConfig(searchableFields, customSearchFn) ==
    [searchableFields |-> searchableFields, customSearchFn |-> customSearchFn]

\* The configurations of the useSearch tests: no custom search function.
FieldSearchConfigs ==
    {SearchConfig(fields, "none") :
        fields \in {<<"name", "email">>, <<"skillNames">>, <<"email">>,
                    <<"email", "skillNames", "roleName">>}}

\* useMemberSearchConfig()
MemberSearchConfig == SearchConfig(<<"name", "email">>, "member")

\* String.prototype.toLowerCase, one character.
LowerChar(c) ==
    CASE c = "A" -> "a" [] c = "D" -> "d" [] c = "E" -> "e" [] c = "G" -> "g"
      [] c = "J" -> "j" [] c = "O" -> "o" [] c = "Q" -> "q" [] c = "R" -> "r"
      [] c = "S" -> "s" [] OTHER -> c

ToLowerCase(str) == [i \in 1..Len(str) |-> LowerChar(str[i])]

\* String.prototype.trim
Trim(str) ==
    LET solid == {i \in 1..Len(str) : str[i] # " "}
    IN  IF solid = {} THEN <<>>
        ELSE SubSeq(str, CHOOSE i \in solid : \A j \in solid : i <= j,
                         CHOOSE i \in solid : \A j \in solid : i >= j)

\* String.prototype.includes
StrIncludes(str, part) ==
    \E i \in 0..(Len(str) - Len(part)) : SubSeq(str, i + 1, i + Len(part)) = part

\* Mutant: the field value is not lower-cased before the comparison.
MutFieldMatchesCaseSensitive(value, lowerSearchTerm) ==
    IF value.kind \in {"null", "undefined"} THEN FALSE
    ELSE IF value.kind = "array"
         THEN \E k \in 1..Len(value.value) :
                  StrIncludes(value.value[k], lowerSearchTerm)
    ELSE StrIncludes(value.value, lowerSearchTerm)

\* The test of one searchable field in the default search.
FieldMatches(value, lowerSearchTerm) ==
    IF value.kind \in {"null", "undefined"} THEN FALSE
    ELSE IF value.kind = "array"
         THEN \E k \in 1..Len(value.value) :
                  StrIncludes(ToLowerCase(value.value[k]), lowerSearchTerm)
    ELSE StrIncludes(ToLowerCase(value.value), lowerSearchTerm)

\* customSearchFn of useMemberSearchConfig
MemberCustomSearchFn(member, term0) ==
    LET term == ToLowerCase(term0)
        truthy(v) == v.kind = "string" /\ Len(v.value) > 0
    IN  IF StrIncludes(ToLowerCase(member.name.value), term) THEN TRUE
        ELSE IF truthy(member.email) /\ StrIncludes(ToLowerCase(member.email.value), term)
             THEN TRUE
        ELSE FALSE

\* Mutant: only the empty term returns all items, a term of spaces is searched.
MutUseSearchNoTrim(its, term, config) ==
    IF Len(term) = 0 THEN its
    ELSE LET lowerSearchTerm == ToLowerCase(term) IN
         SelectSeq(its, LAMBDA item :
             IF config.customSearchFn = "member"
             THEN MemberCustomSearchFn(item, lowerSearchTerm)
             ELSE \E k \in 1..Len(config.searchableFields) :
                      FieldMatches(item[config.searchableFields[k]], lowerSearchTerm))

\* The memo of useSearch.
UseSearch(its, term, config) ==
    IF Len(Trim(term)) = 0 THEN its
    ELSE LET lowerSearchTerm == ToLowerCase(term) IN
         SelectSeq(its, LAMBDA item :
             IF config.customSearchFn = "member"
             THEN MemberCustomSearchFn(item, lowerSearchTerm)
             ELSE \E k \in 1..Len(config.searchableFields) :
                      FieldMatches(item[config.searchableFields[k]], lowerSearchTerm))

\* The hook before its component is rendered.
SearchIdle ==
    /\ searchItems = <<>>
    /\ searchTerm = <<>>
    /\ searchConfig = MemberSearchConfig
    /\ searchResult = <<>>

----------------------------------------------------------------------------
(* useListingView.  The items are numbered; the page sizes and the list    *)
(* lengths are scaled down from rowsPerPageOptions = [10, 25, 50, 100].    *)

\* The item lists useListingView is given have at most this many items.
MaxListItems == 5

\* handlePageChange is called with a page from 0 to this one.
MaxPage == 3

\* pageSize and the values handlePageSizeChange is called with.
PageSizeOptions == {2, 3}

\* ViewMode
ViewModes == {"table", "list", "grid"}

\* The terms handleSearchChange is called with.
ListSearchTerms == {<<>>, <<"d">>, <<"d", "E">>}

\* The lists of items: item k is the number k.
ListItemLists == {[k \in 1..n |-> k] : n \in 0..MaxListItems}

Min(a, b) == IF a < b THEN a ELSE b

Max(a, b) == IF a > b THEN a ELSE b

\* Array.prototype.slice(start, end)
Slice(arr, start, end) ==
    LET len == Len(arr)
        k == IF start < 0 THEN Max(len + start, 0) ELSE Min(start, len)
        final == IF end < 0 THEN Max(len + end, 0) ELSE Min(end, len)
    IN  SubSeq(arr, k + 1, final)

\* Mutant: the window starts at index page instead of page * rowsPerPage.
MutPaginatedItemsStartAtPage(its, pg, rows) ==
    LET start == pg
        end == start + rows
    IN  Slice(its, start, end)

\* The paginatedItems memo.
PaginatedItems(its, pg, rows) ==
    LET start == pg * rows
        end == start + rows
    IN  Slice(its, start, end)

\* The hook before its component is rendered.
ListIdle ==
    /\ listItems = <<>>
    /\ viewMode = "table"
    /\ page = 0
    /\ rowsPerPage = 2
    /\ listSearchTerm = <<>>
    /\ paginatedItems = <<>>
    /\ listOp = "init"
    /\ pageBefore = 0

----------------------------------------------------------------------------
(* useForm, as MemberForm and TeamForm use it.  The fields without a       *)
(* validation rule (skills, availability, color, targetRoles, targetSkills)*)
(* are left out of the values.                                             *)

\* The fields of validationRules, in the order of Object.keys.
FormFields(kind) ==
    IF kind = "member" THEN <<"name", "role", "email">>
    ELSE <<"name", "description", "targetSize">>

\* The values a text field is given.
TextInputs == {<<>>, <<" ">>, <<"A", "l">>}

\* The values of <input type="email">.
EmailInputs ==
    {<<>>, <<"a", "b">>, <<"a", "@", "b">>, <<"a", "@", "b", ".">>,
     <<"@", "b", ".", "c">>, <<"a", "@", "b", ".", "c">>}

\* The values of <input type="number">: empty, or a floating-point number.
NumberInputs ==
    {<<>>, <<"0">>, <<"5">>, <<"-", "5">>, <<"-", "0">>, <<"1", "0">>,
     <<"0", ".", "5">>, <<"-", ".", "5">>}

FieldInputs(field) ==
    CASE field = "email" -> EmailInputs
      [] field = "targetSize" -> NumberInputs
      [] OTHER -> TextInputs

\* initialValues
InitialValues(kind) ==
    [f \in {FormFields(kind)[k] : k \in 1..3} |-> <<>>]

\* The values resetTo is called with when a stored member or team is edited.
EditValues(kind) ==
    IF kind = "member"
    THEN {[f \in {"name", "role", "email"} |->
              CASE f = "name" -> <<"A", "l">> [] f = "role" -> <<"A", "l">>
                [] OTHER -> e] : e \in {<<>>, <<"a", "@", "b", ".", "c">>}}
    ELSE {[f \in {"name", "description", "targetSize"} |->
              CASE f = "name" -> <<"A", "l">> [] f = "description" -> <<"A", "l">>
                [] OTHER -> n] : n \in {<<>>, <<"5">>}}

Digits == {"0", "1", "5"}

DigitValue(c) == CASE c = "0" -> 0 [] c = "1" -> 1 [] c = "5" -> 5

NaN == [kind |-> "NaN"]

JsNumber(n) == [kind |-> "number", value |-> n]

RECURSIVE DecimalValue(_)
DecimalValue(digits) ==
    IF Len(digits) = 0 THEN 0
    ELSE 10 * DecimalValue(SubSeq(digits, 1, Len(digits) - 1))
         + DigitValue(digits[Len(digits)])

\* parseInt(str, 10): leading white space, a sign, then the longest run of digits.
ParseInt(str) ==
    LET solid == {i \in 1..Len(str) : str[i] # " "}
        s == IF solid = {} THEN <<>>
             ELSE SubSeq(str, CHOOSE i \in solid : \A j \in solid : i <= j, Len(str))
        signed == Len(s) > 0 /\ s[1] \in {"-", "+"}
        body == IF signed THEN Tail(s) ELSE s
        n == CHOOSE k \in 0..Len(body) :
                 /\ \A i \in 1..k : body[i] \in Digits
                 /\ k < Len(body) => body[k + 1] \notin Digits
        magnitude == DecimalValue(SubSeq(body, 1, n))
    IN  IF n = 0 THEN NaN
        ELSE JsNumber(IF signed /\ s[1] = "-" THEN 0 - magnitude ELSE magnitude)

\* /^[^\s@]+@[^\s@]+\.[^\s@]+$/.test(str)
EmailRegexTest(str) ==
    \E at \in 2..Len(str) :
        /\ str[at] = "@"
        /\ \A i \in 1..Len(str) : str[i] # " " /\ (i # at => str[i] # "@")
        /\ \E dot \in (at + 2)..(Len(str) - 1) : str[dot] = "."

\* The validator MemberForm gives validators.custom for email.
EmailValidator(value) ==
    IF Len(value) = 0 \/ Len(Trim(value)) = 0 THEN TRUE
    ELSE EmailRegexTest(value)

\* The validator TeamForm gives validators.custom for targetSize.
TargetSizeValidator(value) ==
    IF Len(value) = 0 \/ Len(Trim(value)) = 0 THEN TRUE
    ELSE LET num == ParseInt(value) IN num.kind # "NaN" /\ num.value > 0

\* validators.required()
RequiredRule(value) ==
    IF Len(value) = 0 THEN "errors.required"
    ELSE IF Len(Trim(value)) = 0 THEN "errors.required"
    ELSE Undefined

\* validationRules[field], each rule applied to the value.
RuleResults(kind, field, value) ==
    CASE field \in {"name", "role", "description"} -> <<RequiredRule(value)>>
      [] field = "email" ->
             <<IF EmailValidator(value) THEN Undefined ELSE "errors.invalidEmail">>
      [] field = "targetSize" ->
             <<IF TargetSizeValidator(value) THEN Undefined ELSE "teams.invalidTargetSize">>

\* validateField(field) of a render whose values are vals: the message of the
\* first rule that fails.  t() is the message key where no translation is loaded.
ValidateField(kind, field, vals) ==
    LET results == RuleResults(kind, field, vals[field])
        failed == {k \in 1..Len(results) : results[k] # Undefined}
    IN  IF failed = {} THEN Undefined
        ELSE results[CHOOSE k \in failed : \A j \in failed : k <= j]

\* newErrors of validate()
Validate(kind, vals) ==
    LET fields == {FormFields(kind)[k] : k \in 1..3}
        invalid == {f \in fields : ValidateField(kind, f, vals) # Undefined}
    IN  [f \in invalid |-> ValidateField(kind, f, vals)]

\* The argument onSubmit gives onSave.
SaveData(kind, vals) ==
    IF kind = "member"
    THEN [f \in {"name", "role", "email"} |->
             IF f = "email"
             THEN (IF Len(Trim(vals[f])) = 0 THEN JsUndefined ELSE JsString(Trim(vals[f])))
             ELSE JsString(Trim(vals[f]))]
    ELSE [f \in {"name", "description", "targetSize"} |->
             IF f = "targetSize"
             THEN (IF Len(Trim(vals[f])) = 0 THEN JsUndefined ELSE ParseInt(vals[f]))
             ELSE JsString(vals[f])]

NotSubmitted == [called |-> "never"]

NotSaved == [kind |-> "none"]

\* The hook before its component is rendered.
FormIdle ==
    /\ formKind = "member"
    /\ formOpen = FALSE
    /\ values = InitialValues("member")
    /\ errors = EmptyMap
    /\ touched = EmptyMap
    /\ isSubmitting = FALSE
    /\ lastSubmit = NotSubmitted
    /\ saved = NotSaved

----------------------------------------------------------------------------
(* TeamAssignment: the warnings of the assignment dialog.                  *)

\* The teamMembers prop has at most this many members.
MaxTeamMembers == 2

\* MemberWithNames, with the properties the relevance test reads.
DialogMember(id, roleId, skillIds) == [id |-> id, roleId |-> roleId, skillIds |-> skillIds]

DialogMemberPool ==
    {DialogMember("m1", "r1", <<"s1">>),
     DialogMember("m2", "r2", <<"s1", "s2">>),
     DialogMember("m3", "r2", <<>>),
     DialogMember("m4", "r1", <<"s2">>)}

RECURSIVE DialogMemberLists(_)
\* The lists of n distinct members of the pool.
DialogMemberLists(n) ==
    IF n = 0 THEN {<<>>}
    ELSE UNION {{Append(l, m) : m \in DialogMemberPool \ {l[k] : k \in 1..Len(l)}} :
                   l \in DialogMemberLists(n - 1)}

\* Team, with its optional target criteria.
DialogTeam(targetSize, targetRoles, targetSkills) ==
    [targetSize |-> targetSize, targetRoles |-> targetRoles, targetSkills |-> targetSkills]

DialogTeams ==
    {DialogTeam(size, roles, skills) :
        roles \in {JsUndefined, JsArray(<<>>), JsArray(<<"r1">>)},
        skills \in {JsUndefined, JsArray(<<>>), JsArray(<<"s1">>)},
        size \in {JsUndefined, JsNumber(1), JsNumber(2)}}

\* !x for an optional array: undefined is falsy, an array is not.
IsFalsy(x) == x.kind = "undefined"

\* isMemberRelevant(member, team)
IsMemberRelevant(member, tm) ==
    IF IsFalsy(tm.targetRoles) /\ IsFalsy(tm.targetSkills) THEN TRUE
    ELSE LET hasMatchingRole ==
                 \/ IsFalsy(tm.targetRoles)
                 \/ Len(tm.targetRoles.value) = 0
                 \/ Includes(tm.targetRoles.value, member.roleId)
             hasMatchingSkills ==
                 \/ IsFalsy(tm.targetSkills)
                 \/ Len(tm.targetSkills.value) = 0
                 \/ \E k \in 1..Len(member.skillIds) :
                        Includes(tm.targetSkills.value, member.skillIds[k])
         IN  hasMatchingRole \/ hasMatchingSkills

\* hasIrrelevantMembers(teamMembers, team)
HasIrrelevantMembers(members, tm) ==
    IF IsFalsy(tm.targetRoles) /\ IsFalsy(tm.targetSkills) THEN FALSE
    ELSE \E k \in 1..Len(members) : ~IsMemberRelevant(members[k], tm)

\* getSizeWarning(currentSize, targetSize)
GetSizeWarning(currentSize, targetSize) ==
    IF targetSize.kind = "undefined" \/ targetSize.value = 0 THEN "null"
    ELSE IF currentSize < targetSize.value THEN "teams.sizeBelowTarget"
    ELSE IF currentSize > targetSize.value THEN "teams.sizeAboveTarget"
    ELSE "null"

\* The dialog before it is rendered.
DialogIdle ==
    /\ dialogTeam = DialogTeam(JsUndefined, JsUndefined, JsUndefined)
    /\ teamMembers = <<>>
    /\ hasIrrelevant = FALSE
    /\ sizeWarning = "null"

\* The save effect has not run and the app was never closed.
NoWrite == [data |-> NoValue, outcome |-> "none"]

PersistIdle ==
    /\ lastWrite = NoWrite
    /\ atExit = NoWrite

PageIdle == SearchIdle /\ ListIdle /\ FormIdle /\ DialogIdle /\ PersistIdle

----------------------------------------------------------------------------
(* AppProvider: the load effect, the save effect and dispatch.             *)

Init ==
    /\ state = initialState
    /\ storage \in InitialStorage
    /\ stored0 = storage
    /\ pc = "mount"
    /\ loadResult = [kind |-> "none"]
    /\ effectPending = TRUE
    /\ now = 0
    /\ lastAction = [type |-> "INIT"]
    /\ prev = initialState
    /\ items = <<>>
    /\ activeFilters = <<>>
    /\ filteredItems = <<>>
    /\ lastApplied = [id \in FilterIds |-> NotApplied]
    /\ lastOp = "init"
    /\ PageIdle

\* Mutant: the save effect may run before the load effect has read the storage.
MutSaveEffectBeforeLoad == effectPending

\* The save effect is declared after the load effect, so at mount it runs second.
SaveEffectEnabled == effectPending /\ pc # "mount"

\* useEffect(() => { loadState() }, [loadFromStorage]): loadFromStorage runs up
\* to its return inside the effect; loadState then awaits the resolved promise.
LoadEffect ==
    /\ pc = "mount"
    /\ loadResult' = LoadFromStorage(storage)
    /\ pc' = "awaitLoad"
    /\ UNCHANGED <<state, storage, stored0, effectPending, now, lastAction, prev>>
    /\ UNCHANGED <<filterVars, pageVars>>

\* useEffect(() => { saveState() }, [state, saveToStorage]): the effect of the
\* latest committed render; saveToStorage has no await before setItem.
SaveEffect ==
    /\ SaveEffectEnabled
    /\ storage' = SaveToStorage(state)
    /\ effectPending' = FALSE
    /\ UNCHANGED <<state, stored0, pc, loadResult, now, lastAction, prev>>
    /\ UNCHANGED <<filterVars, pageVars>>

\* The continuation of loadState after the await: a microtask that runs when
\* the mount effects have all run.
LoadResume ==
    /\ pc = "awaitLoad"
    /\ ~effectPending
    /\ pc' = "ready"
    /\ IF loadResult.kind = "state"
       THEN LET action == Action("LOAD_STATE", loadResult.value)
            IN  /\ state' = appReducer(state, action, now)
                /\ lastAction' = action
                /\ prev' = state
                /\ effectPending' = (state' # state)
       ELSE UNCHANGED <<state, lastAction, prev, effectPending>>
    /\ UNCHANGED <<storage, stored0, loadResult, now>>
    /\ UNCHANGED <<filterVars, pageVars>>

\* Mutant: the save effect does not depend on the state, so a dispatch does not
\* schedule it.
MutDispatchWithoutSaveEffect(action) ==
    /\ pc = "ready"
    /\ now < MaxNow
    /\ now' = now + 1
    /\ state' = appReducer(state, action, now')
    /\ lastAction' = action
    /\ prev' = state
    /\ UNCHANGED <<storage, stored0, pc, loadResult, effectPending>>
    /\ UNCHANGED <<filterVars, pageVars>>

\* dispatch(action) from a hook or component; several dispatches may precede
\* the next render, whose save effect then sees the latest state only.
Dispatch(action) ==
    /\ pc = "ready"
    /\ now < MaxNow
    /\ now' = now + 1
    /\ state' = appReducer(state, action, now')
    /\ lastAction' = action
    /\ prev' = state
    /\ effectPending' = (effectPending \/ state' # state)
    /\ UNCHANGED <<storage, stored0, pc, loadResult>>
    /\ UNCHANGED <<filterVars, pageVars>>

AddMember == \E p \in MemberPayloads(now + 1) : Dispatch(Action("ADD_MEMBER", p))

UpdateMember == \E p \in MemberPayloads(now + 1) : Dispatch(Action("UPDATE_MEMBER", p))

DeleteMember == \E id \in MemberIds : Dispatch(Action("DELETE_MEMBER", id))

AddTeam == \E p \in TeamPayloads(now + 1) : Dispatch(Action("ADD_TEAM", p))

UpdateTeam == \E p \in TeamPayloads(now + 1) : Dispatch(Action("UPDATE_TEAM", p))

DeleteTeam == \E id \in TeamIds : Dispatch(Action("DELETE_TEAM", id))

AddRole == \E p \in RolePayloads : Dispatch(Action("ADD_ROLE", p))

UpdateRole == \E p \in RolePayloads : Dispatch(Action("UPDATE_ROLE", p))

DeleteRole == \E id \in RoleIds : Dispatch(Action("DELETE_ROLE", id))

AddSkill == \E p \in SkillPayloads : Dispatch(Action("ADD_SKILL", p))

UpdateSkill == \E p \in SkillPayloads : Dispatch(Action("UPDATE_SKILL", p))

DeleteSkill == \E id \in SkillIds : Dispatch(Action("DELETE_SKILL", id))

AssignMemberToTeam ==
    \E p \in AssignmentPayloads : Dispatch(Action("ASSIGN_MEMBER_TO_TEAM", p))

RemoveMemberFromTeam ==
    \E p \in AssignmentPayloads : Dispatch(Action("REMOVE_MEMBER_FROM_TEAM", p))

ToggleDarkMode == Dispatch([type |-> "TOGGLE_DARK_MODE"])

SetLanguage == \E lang \in {"en", "de"} : Dispatch(Action("SET_LANGUAGE", lang))

Next ==
    \/ LoadEffect
    \/ SaveEffect
    \/ LoadResume
    \/ AddMember
    \/ UpdateMember
    \/ DeleteMember
    \/ AddTeam
    \/ UpdateTeam
    \/ DeleteTeam
    \/ AddRole
    \/ UpdateRole
    \/ DeleteRole
    \/ AddSkill
    \/ UpdateSkill
    \/ DeleteSkill
    \/ AssignMemberToTeam
    \/ RemoveMemberFromTeam
    \/ ToggleDarkMode
    \/ SetLanguage

Spec == Init /\ [][Next]_vars

\* AppProvider before it is mounted.
AppIdle ==
    /\ state = initialState
    /\ storage = NoValue
    /\ stored0 = NoValue
    /\ pc = "mount"
    /\ loadResult = [kind |-> "none"]
    /\ effectPending = TRUE
    /\ now = 0
    /\ lastAction = [type |-> "INIT"]
    /\ prev = initialState

\* useFilter before its component is rendered.
FilterIdle ==
    /\ items = <<>>
    /\ activeFilters = <<>>
    /\ filteredItems = <<>>
    /\ lastApplied = [id \in FilterIds |-> NotApplied]
    /\ lastOp = "init"

----------------------------------------------------------------------------
(* The useFilter hook on its own: a list of items and the calls on the hook. *)

InitFilter ==
    /\ state = initialState
    /\ storage = NoValue
    /\ stored0 = NoValue
    /\ pc = "mount"
    /\ loadResult = [kind |-> "none"]
    /\ effectPending = TRUE
    /\ now = 0
    /\ lastAction = [type |-> "INIT"]
    /\ prev = initialState
    /\ items \in UNION {ItemLists(n) : n \in 0..MaxItems}
    /\ activeFilters = <<>>
    /\ filteredItems = FilteredItems(items, activeFilters)
    /\ lastApplied = [id \in FilterIds |-> NotApplied]
    /\ lastOp = "init"
    /\ PageIdle

ApplyFilter ==
    \E filterId \in FilterIds, value \in FilterValues :
        /\ activeFilters' = ApplyUpdate(activeFilters, filterId, value)
        /\ filteredItems' = FilteredItems(items, activeFilters')
        /\ lastApplied' = [lastApplied EXCEPT ![filterId] = value]
        /\ lastOp' = IF lastApplied[filterId] = NotApplied THEN "add" ELSE "update"
        /\ UNCHANGED <<items, appVars, pageVars>>

RemoveFilter ==
    \E filterId \in FilterIds :
        /\ activeFilters' = RemoveUpdate(activeFilters, filterId)
        /\ filteredItems' = FilteredItems(items, activeFilters')
        /\ lastApplied' = [lastApplied EXCEPT ![filterId] = NotApplied]
        /\ lastOp' = "remove"
        /\ UNCHANGED <<items, appVars, pageVars>>

ClearAllFilters ==
    /\ activeFilters' = <<>>
    /\ filteredItems' = FilteredItems(items, activeFilters')
    /\ lastApplied' = [id \in FilterIds |-> NotApplied]
    /\ lastOp' = "clear"
    /\ UNCHANGED <<items, appVars, pageVars>>

NextFilter ==
    \/ ApplyFilter
    \/ RemoveFilter
    \/ ClearAllFilters

SpecFilter == InitFilter /\ [][NextFilter]_vars

----------------------------------------------------------------------------
(* The useSearch hook on its own: renders with new arguments.              *)

InitSearch ==
    /\ AppIdle
    /\ FilterIdle
    /\ ListIdle
    /\ FormIdle
    /\ DialogIdle
    /\ PersistIdle
    /\ searchItems \in UNION {SearchItemLists(n) : n \in 0..MaxSearchItems}
    /\ searchTerm = <<>>
    /\ searchConfig \in FieldSearchConfigs \cup {MemberSearchConfig}
    /\ searchResult = UseSearch(searchItems, searchTerm, searchConfig)

\* A render with another search term.
SearchTermChange ==
    \E term \in SearchTerms :
        /\ searchTerm' = term
        /\ searchResult' = UseSearch(searchItems, term, searchConfig)
        /\ UNCHANGED <<searchItems, searchConfig, notSearchVars>>

\* A render with another list of items.
SearchItemsChange ==
    \E its \in UNION {SearchItemLists(n) : n \in 0..MaxSearchItems} :
        /\ searchItems' = its
        /\ searchResult' = UseSearch(its, searchTerm, searchConfig)
        /\ UNCHANGED <<searchTerm, searchConfig, notSearchVars>>

NextSearch ==
    \/ SearchTermChange
    \/ SearchItemsChange

SpecSearch == InitSearch /\ [][NextSearch]_vars

----------------------------------------------------------------------------
(* The useListingView hook on its own.                                     *)

InitList ==
    /\ AppIdle
    /\ FilterIdle
    /\ SearchIdle
    /\ FormIdle
    /\ DialogIdle
    /\ PersistIdle
    /\ listItems \in ListItemLists
    /\ viewMode \in {"table", "grid"}
    /\ page = 0
    /\ rowsPerPage \in PageSizeOptions
    /\ listSearchTerm = <<>>
    /\ paginatedItems = PaginatedItems(listItems, page, rowsPerPage)
    /\ listOp = "init"
    /\ pageBefore = 0

\* handlePageChange(newPage)
HandlePageChange ==
    \E newPage \in 0..MaxPage :
        /\ page' = newPage
        /\ paginatedItems' = PaginatedItems(listItems, page', rowsPerPage)
        /\ listOp' = "page"
        /\ pageBefore' = page
        /\ UNCHANGED <<listItems, viewMode, rowsPerPage, listSearchTerm, notListVars>>

\* handlePageSizeChange(newPageSize)
HandlePageSizeChange ==
    \E newPageSize \in PageSizeOptions :
        /\ rowsPerPage' = newPageSize
        /\ page' = 0
        /\ paginatedItems' = PaginatedItems(listItems, page', rowsPerPage')
        /\ listOp' = "pageSize"
        /\ pageBefore' = page
        /\ UNCHANGED <<listItems, viewMode, listSearchTerm, notListVars>>

\* Mutant: the search term is set and the page is kept.
MutHandleSearchChangeKeepsPage ==
    \E term \in ListSearchTerms :
        /\ listSearchTerm' = term
        /\ listOp' = "search"
        /\ pageBefore' = page
        /\ UNCHANGED <<listItems, viewMode, page, rowsPerPage, paginatedItems, notListVars>>

\* handleSearchChange(term)
HandleSearchChange ==
    \E term \in ListSearchTerms :
        /\ listSearchTerm' = term
        /\ page' = 0
        /\ paginatedItems' = PaginatedItems(listItems, page', rowsPerPage)
        /\ listOp' = "search"
        /\ pageBefore' = page
        /\ UNCHANGED <<listItems, viewMode, rowsPerPage, notListVars>>

\* handleViewModeChange(mode)
HandleViewModeChange ==
    \E mode \in ViewModes :
        /\ viewMode' = mode
        /\ page' = 0
        /\ paginatedItems' = PaginatedItems(listItems, page', rowsPerPage)
        /\ listOp' = "viewMode"
        /\ pageBefore' = page
        /\ UNCHANGED <<listItems, rowsPerPage, listSearchTerm, notListVars>>

\* A render with another list of items, and the effect on [items.length].
ListItemsChange ==
    \E its \in ListItemLists :
        /\ listItems' = its
        /\ page' = IF Len(its) # Len(listItems) THEN 0 ELSE page
        /\ paginatedItems' = PaginatedItems(its, page', rowsPerPage)
        /\ listOp' = "items"
        /\ pageBefore' = page
        /\ UNCHANGED <<viewMode, rowsPerPage, listSearchTerm, notListVars>>

NextList ==
    \/ HandlePageChange
    \/ HandlePageSizeChange
    \/ HandleSearchChange
    \/ HandleViewModeChange
    \/ ListItemsChange

SpecList == InitList /\ [][NextList]_vars

----------------------------------------------------------------------------
(* useForm in a form dialog: the dialog opens, fields change, the form is  *)
(* submitted or closed.                                                    *)

InitForm ==
    /\ AppIdle
    /\ FilterIdle
    /\ SearchIdle
    /\ ListIdle
    /\ DialogIdle
    /\ PersistIdle
    /\ formKind \in {"member", "team"}
    /\ formOpen = FALSE
    /\ values = InitialValues(formKind)
    /\ errors = EmptyMap
    /\ touched = EmptyMap
    /\ isSubmitting = FALSE
    /\ lastSubmit = NotSubmitted
    /\ saved = NotSaved

\* The effect on [open, initialData]: form.reset() for a new record.
OpenNew ==
    /\ ~formOpen
    /\ ~isSubmitting
    /\ formOpen' = TRUE
    /\ values' = InitialValues(formKind)
    /\ errors' = EmptyMap
    /\ touched' = EmptyMap
    /\ isSubmitting' = FALSE
    /\ lastSubmit' = NotSubmitted
    /\ UNCHANGED <<formKind, saved, notFormVars>>

\* The effect on [open, initialData]: form.resetTo(...) for a stored record.
OpenEdit ==
    \E newInitialValues \in EditValues(formKind) :
        /\ ~formOpen
        /\ ~isSubmitting
        /\ formOpen' = TRUE
        /\ values' = newInitialValues
        /\ errors' = EmptyMap
        /\ touched' = EmptyMap
        /\ isSubmitting' = FALSE
        /\ lastSubmit' = NotSubmitted
        /\ UNCHANGED <<formKind, saved, notFormVars>>

\* handleChange(field)(value): setValue, which validates the field with the
\* values of the current render, then setTouchedField.
HandleChange ==
    \E k \in 1..3 :
        LET field == FormFields(formKind)[k] IN
        \E value \in FieldInputs(field) :
            /\ formOpen
            /\ ~isSubmitting
            /\ values' = [values EXCEPT ![field] = value]
            /\ errors' =
                   LET cleared == IF field \in DOMAIN errors THEN Without(errors, field)
                                  ELSE errors
                       error == ValidateField(formKind, field, values)
                   IN  IF error # Undefined THEN Put(cleared, field, error) ELSE cleared
            /\ touched' = Put(touched, field, TRUE)
            /\ lastSubmit' = NotSubmitted
            /\ UNCHANGED <<formKind, formOpen, isSubmitting, saved, notFormVars>>

\* handleBlur(field)(); validateOnBlur is false in both forms.
HandleBlur ==
    \E k \in 1..3 :
        /\ formOpen
        /\ ~isSubmitting
        /\ touched' = Put(touched, FormFields(formKind)[k], TRUE)
        /\ lastSubmit' = NotSubmitted
        /\ UNCHANGED <<formKind, formOpen, values, errors, isSubmitting, saved,
                       notFormVars>>

\* Mutant: onSubmit is called whatever validate() returns.
MutHandleSubmitNoValidate ==
    /\ formOpen
    /\ ~isSubmitting
    /\ touched' = [f \in (DOMAIN touched) \cup {FormFields(formKind)[k] : k \in 1..3} |-> TRUE]
    /\ errors' = Validate(formKind, values)
    /\ isSubmitting' = TRUE
    /\ saved' = [kind |-> "data", value |-> SaveData(formKind, values),
                 formData |-> values]
    /\ formOpen' = FALSE
    /\ lastSubmit' = [called |-> "yes", formData |-> values]
    /\ UNCHANGED <<formKind, values, notFormVars>>

\* handleSubmit up to its await: every field is touched, validate() sets the
\* errors, and when there is none onSubmit runs: onSave(...), onClose().
HandleSubmit ==
    /\ formOpen
    /\ ~isSubmitting
    /\ touched' = [f \in (DOMAIN touched) \cup {FormFields(formKind)[k] : k \in 1..3} |-> TRUE]
    /\ errors' = Validate(formKind, values)
    /\ IF DOMAIN errors' = {}
       THEN /\ isSubmitting' = TRUE
            /\ saved' = [kind |-> "data", value |-> SaveData(formKind, values),
                         formData |-> values]
            /\ formOpen' = FALSE
            /\ lastSubmit' = [called |-> "yes", formData |-> values]
       ELSE /\ lastSubmit' = [called |-> "no", formData |-> values]
            /\ UNCHANGED <<isSubmitting, saved, formOpen>>
    /\ UNCHANGED <<formKind, values, notFormVars>>

\* The finally block of handleSubmit, after the await.
SubmitSettled ==
    /\ isSubmitting
    /\ isSubmitting' = FALSE
    /\ UNCHANGED <<formKind, formOpen, values, errors, touched, lastSubmit, saved,
                   notFormVars>>

\* handleClose: form.reset(), form.clearErrors(), onClose().
HandleClose ==
    /\ formOpen
    /\ ~isSubmitting
    /\ values' = InitialValues(formKind)
    /\ errors' = EmptyMap
    /\ touched' = EmptyMap
    /\ isSubmitting' = FALSE
    /\ formOpen' = FALSE
    /\ lastSubmit' = NotSubmitted
    /\ UNCHANGED <<formKind, saved, notFormVars>>

NextForm ==
    \/ OpenNew
    \/ OpenEdit
    \/ HandleChange
    \/ HandleBlur
    \/ HandleSubmit
    \/ SubmitSettled
    \/ HandleClose

SpecForm == InitForm /\ [][NextForm]_vars

----------------------------------------------------------------------------
(* The TeamAssignment dialog on its own: renders with new props.           *)

InitDialog ==
    /\ AppIdle
    /\ FilterIdle
    /\ SearchIdle
    /\ ListIdle
    /\ FormIdle
    /\ PersistIdle
    /\ dialogTeam \in DialogTeams
    /\ teamMembers = <<>>
    /\ hasIrrelevant = HasIrrelevantMembers(teamMembers, dialogTeam)
    /\ sizeWarning = GetSizeWarning(Len(teamMembers), dialogTeam.targetSize)

\* A render after onAssign or onRemove changed the members of the team.
TeamMembersChange ==
    \E members \in UNION {DialogMemberLists(n) : n \in 0..MaxTeamMembers} :
        /\ teamMembers' = members
        /\ hasIrrelevant' = HasIrrelevantMembers(members, dialogTeam)
        /\ sizeWarning' = GetSizeWarning(Len(members), dialogTeam.targetSize)
        /\ UNCHANGED <<dialogTeam, notDialogVars>>

\* A render for another team, or after the team was edited.
DialogTeamChange ==
    \E tm \in DialogTeams :
        /\ dialogTeam' = tm
        /\ hasIrrelevant' = HasIrrelevantMembers(teamMembers, tm)
        /\ sizeWarning' = GetSizeWarning(Len(teamMembers), tm.targetSize)
        /\ UNCHANGED <<teamMembers, notDialogVars>>

NextDialog ==
    \/ TeamMembersChange
    \/ DialogTeamChange

SpecDialog == InitDialog /\ [][NextDialog]_vars

----------------------------------------------------------------------------
(* Saving a member or a team from its form: useMembers.addMember and the   *)
(* onSubmit of TeamForm resolve role and skill names to ids with useRoles  *)
(* and useSkills, which create the roles and skills they do not find.      *)
(* Names are sequences of characters; an id is the pair of the clock and   *)
(* the random string generateId joins.                                     *)

\* The outcomes of Math.random().toString(36).substr(2, 9).
RandomPool == {"a", "b"}

\* generateId()
GenerateId(ts, rnd) == <<ts, rnd>>

\* The number of forms saved in one run.
MaxSaves == 1

\* The role names a member form is saved with.
RoleNameInputs == {<<"Q", "A">>, <<"q", "a">>}

\* The lists of skill names a member form is saved with.
SkillNameLists ==
    {<< <<"J", "S">> >>, << <<"J", "S">>, <<"j", "s">> >>, << <<"G", "o", " ">> >>}

\* The lists of role names a team form is saved with.
TargetRoleLists == {<<>>, << <<"q", "a">> >>, << <<"Q", "A">>, <<"q", "a">> >>}

\* The lists of skill names a team form is saved with.
TargetSkillLists == {<<>>, << <<"j", "s">> >>}

\* findRoleByName / findSkillByName: the keys of the entries whose name equals
\* the name when both are lower-cased.  find returns the first of them in name
\* order; where there are several, each is an outcome here.
FindByName(collection, name) ==
    {k \in DOMAIN collection : ToLowerCase(collection[k].name) = ToLowerCase(name)}

\* getOrCreateRoleId / getOrCreateSkillId in a render whose roles or skills are
\* collection: the id returned, the trimmed name and whether ADD_x is dispatched.
Resolutions(collection, name, newId) ==
    LET trimmedName == Trim(name)
        found == FindByName(collection, trimmedName)
    IN  IF found # {}
        THEN {[id |-> k, name |-> trimmedName, created |-> FALSE] : k \in found}
        ELSE {[id |-> newId, name |-> trimmedName, created |-> TRUE]}

RECURSIVE ResolutionLists(_, _, _)
\* getOrCreateSkillIds: names.map(getOrCreateSkillId), every call in the same render.
ResolutionLists(collection, names, newIds) ==
    IF Len(names) = 0 THEN {<<>>}
    ELSE {<<r>> \o rest :
            r \in Resolutions(collection, Head(names), Head(newIds)),
            rest \in ResolutionLists(collection, Tail(names), Tail(newIds))}

RECURSIVE DispatchCreated(_, _, _, _)
\* The state after the ADD_ROLE or ADD_SKILL actions the resolutions dispatched.
DispatchCreated(s, resolutions, type, ts) ==
    IF Len(resolutions) = 0 THEN s
    ELSE LET r == Head(resolutions)
             next == IF r.created THEN appReducer(s, Action(type, Role(r.id, r.name)), ts)
                     ELSE s
         IN  DispatchCreated(next, Tail(resolutions), type, ts)

IdsOf(resolutions) == [k \in 1..Len(resolutions) |-> resolutions[k].id]

\* States the forms are saved in: empty, or with a role and a skill.
NamedStates ==
    {initialState,
     [initialState EXCEPT
         !.roles = [k \in {GenerateId(0, "a")} |-> Role(k, <<"Q", "A">>)],
         !.skills = [k \in {GenerateId(0, "b")} |-> Skill(k, <<"J", "S">>)]]}

InitNames ==
    /\ state \in NamedStates
    /\ storage = SaveToStorage(state)
    /\ stored0 = storage
    /\ pc = "ready"
    /\ loadResult = LoadFromStorage(storage)
    /\ effectPending = FALSE
    /\ now = 0
    /\ lastAction = [type |-> "INIT"]
    /\ prev = state
    /\ FilterIdle
    /\ PageIdle

\* MembersPage handleSave for a new member: useMembers.addMember(formData).
SaveNewMember ==
    \E role \in RoleNameInputs, skills \in SkillNameLists,
       rnd \in [1..4 -> RandomPool] :
        LET ts == now + 1 IN
        \E roleId \in Resolutions(state.roles, role, GenerateId(ts, rnd[1])),
           skillIds \in ResolutionLists(state.skills, skills,
                            <<GenerateId(ts, rnd[2]), GenerateId(ts, rnd[3])>>) :
            LET withRole == DispatchCreated(state, <<roleId>>, "ADD_ROLE", ts)
                withSkills == DispatchCreated(withRole, skillIds, "ADD_SKILL", ts)
                newMember == Member(GenerateId(ts, rnd[4]), "Cy", roleId.id,
                                    IdsOf(skillIds), Undefined, ts)
                action == Action("ADD_MEMBER", newMember)
            IN  /\ pc = "ready"
                /\ now < MaxSaves
                /\ now' = ts
                /\ state' = appReducer(withSkills, action, ts)
                /\ lastAction' = action
                /\ prev' = state
                /\ effectPending' = TRUE
                /\ UNCHANGED <<storage, stored0, pc, loadResult>>
                /\ UNCHANGED <<filterVars, pageVars>>

\* TeamForm onSubmit for a new team, then TeamsPage handleSave: useTeams.addTeam.
SaveNewTeam ==
    \E targetRoles \in TargetRoleLists, targetSkills \in TargetSkillLists,
       rnd \in [1..4 -> RandomPool] :
        LET ts == now + 1 IN
        \E targetRoleIds \in ResolutionLists(state.roles, targetRoles,
                                 <<GenerateId(ts, rnd[1]), GenerateId(ts, rnd[2])>>),
           targetSkillIds \in ResolutionLists(state.skills, targetSkills,
                                  <<GenerateId(ts, rnd[3])>>) :
            LET withRoles == DispatchCreated(state, targetRoleIds, "ADD_ROLE", ts)
                withSkills == DispatchCreated(withRoles, targetSkillIds, "ADD_SKILL", ts)
                optional(ids) == IF Len(ids) > 0 THEN JsArray(ids) ELSE JsUndefined
                newTeam == Put(Put(Team(GenerateId(ts, rnd[4]), "Ops", <<>>, ts),
                                   "targetRoles", optional(IdsOf(targetRoleIds))),
                               "targetSkills", optional(IdsOf(targetSkillIds)))
                action == Action("ADD_TEAM", newTeam)
            IN  /\ pc = "ready"
                /\ now < MaxSaves
                /\ now' = ts
                /\ state' = appReducer(withSkills, action, ts)
                /\ lastAction' = action
                /\ prev' = state
                /\ effectPending' = TRUE
                /\ UNCHANGED <<storage, stored0, pc, loadResult>>
                /\ UNCHANGED <<filterVars, pageVars>>

NextNames ==
    \/ SaveNewMember
    \/ SaveNewTeam
    \/ SaveEffect

SpecNames == InitNames /\ [][NextNames]_vars

----------------------------------------------------------------------------
(* calculateStatistics (utils/statistics.ts), the skill distribution the   *)
(* dashboard derives from the state at every render.  Names are sequences  *)
(* of characters, as in the saves above.                                   *)

\* The name counted for skills missing from the state or with an empty name.
UnknownName == <<"U", "n", "k", "n", "o", "w", "n">>

\* skills[skillId]?.name || 'Unknown'
SkillNameOrUnknown(skills, skillId) ==
    IF skillId \in DOMAIN skills /\ Len(skills[skillId].name) > 0
    THEN skills[skillId].name
    ELSE UnknownName

\* The positions the two nested forEach loops visit: member and index in skillIds.
SkillOccurrences(s) ==
    UNION {{<<id, k>> : k \in 1..Len(s.members[id].skillIds)} : id \in DOMAIN s.members}

\* skillDistribution: every visit adds one to the entry of the skill's name.
SkillDistribution(s) ==
    LET nameAt(p) == SkillNameOrUnknown(s.skills, s.members[p[1]].skillIds[p[2]])
        names == {nameAt(p) : p \in SkillOccurrences(s)}
    IN  [n \in names |-> Cardinality({p \in SkillOccurrences(s) : nameAt(p) = n})]

----------------------------------------------------------------------------
(* AppProvider where localStorage.setItem may throw (quota exceeded, or    *)
(* storage unavailable), and the app is closed and started again.          *)

\* saveState() of the save effect: saveToStorage logs and rethrows what
\* setItem throws, and saveState catches and logs it.
SaveEffectOutcome(thrown) ==
    /\ SaveEffectEnabled
    /\ storage' = IF thrown THEN storage ELSE SaveToStorage(state)
    /\ lastWrite' = [data |-> Stringify(state),
                     outcome |-> IF thrown THEN "failed" ELSE "ok"]
    /\ effectPending' = FALSE
    /\ UNCHANGED <<state, stored0, pc, loadResult, now, lastAction, prev, atExit>>
    /\ UNCHANGED <<filterVars, searchVars, listVars, formVars, dialogVars>>

\* The page is closed once its effects have run, and opened again: AppProvider
\* mounts with initialState; localStorage keeps its value.
CloseAndReopen ==
    /\ pc = "ready"
    /\ ~effectPending
    /\ atExit' = lastWrite
    /\ lastWrite' = NoWrite
    /\ state' = initialState
    /\ stored0' = storage
    /\ pc' = "mount"
    /\ loadResult' = [kind |-> "none"]
    /\ effectPending' = TRUE
    /\ lastAction' = [type |-> "INIT"]
    /\ prev' = initialState
    /\ UNCHANGED <<storage, now>>
    /\ UNCHANGED <<filterVars, searchVars, listVars, formVars, dialogVars>>

NextQuota ==
    \/ LoadEffect
    \/ SaveEffectOutcome(FALSE)
    \/ SaveEffectOutcome(TRUE)
    \/ LoadResume
    \/ AddMember
    \/ ToggleDarkMode
    \/ CloseAndReopen

SpecQuota == Init /\ [][NextQuota]_vars

----------------------------------------------------------------------------
(* Assigning several members to a team: TeamAssignment calls onAssign,     *)
(* TeamsPage passes the list to useTeams.assignMembersToTeam, which        *)
(* dispatches ASSIGN_MEMBERS_TO_TEAM.                                      *)

\* A payload of ASSIGN_MEMBERS_TO_TEAM lists at most this many member ids.
MaxAssigned == 2

\* { memberIds, teamId }
MultiAssignment(memberIds, teamId) == [memberIds |-> memberIds, teamId |-> teamId]

RECURSIVE MemberIdLists(_)
\* The lists of n member ids; an id may occur more than once (MemberId[]).
MemberIdLists(n) ==
    IF n = 0 THEN {<<>>}
    ELSE {Append(l, m) : l \in MemberIdLists(n - 1), m \in MemberIds}

\* Array.from(selectedMembers): the ids of a set, each once, in insertion order.
SelectedLists ==
    {l \in UNION {MemberIdLists(n) : n \in 1..MaxAssigned} :
        \A j, k \in 1..Len(l) : j # k => l[j] # l[k]}

\* The app is running with a state an earlier session saved.
InitAssign ==
    /\ state \in SavedStates
    /\ storage = SaveToStorage(state)
    /\ stored0 = storage
    /\ pc = "ready"
    /\ loadResult = LoadFromStorage(storage)
    /\ effectPending = FALSE
    /\ now = 0
    /\ lastAction = [type |-> "INIT"]
    /\ prev = state
    /\ FilterIdle
    /\ PageIdle

\* handleAssignSelected: onAssign(Array.from(selectedMembers)) for a dialog
\* opened on a team of the state.
HandleAssignSelected ==
    \E l \in SelectedLists, t \in DOMAIN state.teams :
        Dispatch(Action("ASSIGN_MEMBERS_TO_TEAM", MultiAssignment(l, t)))

\* handleDragEnd: a member that is not in the team is dropped on the team area.
HandleDragEnd ==
    \E m \in MemberIds, t \in DOMAIN state.teams :
        /\ ~Includes(state.teams[t].memberIds, m)
        /\ Dispatch(Action("ASSIGN_MEMBERS_TO_TEAM", MultiAssignment(<<m>>, t)))

\* assignMembersToTeam(memberIds, teamId) with any list and team id its
\* signature admits.
AssignMembersToTeam ==
    \E n \in 0..MaxAssigned :
        \E l \in MemberIdLists(n), t \in TeamIds :
            Dispatch(Action("ASSIGN_MEMBERS_TO_TEAM", MultiAssignment(l, t)))

NextAssign ==
    \/ HandleDragEnd
    \/ HandleAssignSelected
    \/ AssignMembersToTeam
    \/ RemoveMemberFromTeam
    \/ SaveEffect

SpecAssign == InitAssign /\ [][NextAssign]_vars

----------------------------------------------------------------------------
(* calculateStatistics: the target-coverage numbers of the dashboard, for  *)
(* teams with target roles and target skills and the members assigned to   *)
(* them.                                                                   *)

\* team.targetRoles && team.targetRoles.length > 0, and likewise targetSkills.
HasTargets(team, field) ==
    /\ field \in DOMAIN team
    /\ team[field].kind = "array"
    /\ Len(team[field].value) > 0

\* The teams whose members the loop over a target field visits.
TargetedTeams(s, field) == {t \in DOMAIN s.teams : HasTargets(s.teams[t], field)}

\* The memberIds of the team for which state.members[memberId] exists.
PresentMembers(s, t) == {m \in DOMAIN s.members : Includes(s.teams[t].memberIds, m)}

\* team.targetRoles.includes(member.roleId)
MatchesTargetRoles(s, t, m) == Includes(s.teams[t].targetRoles.value, s.members[m].roleId)

\* member.skillIds.some(skillId => team.targetSkills.includes(skillId))
MatchesTargetSkills(s, t, m) ==
    \E k \in 1..Len(s.members[m].skillIds) :
        Includes(s.teams[t].targetSkills.value, s.members[m].skillIds[k])

\* The six Sets the loop over the teams fills.
MembersInRoleTargetedTeams(s) ==
    UNION {PresentMembers(s, t) : t \in TargetedTeams(s, "targetRoles")}

MembersMatchingTargetRoles(s) ==
    UNION {{m \in PresentMembers(s, t) : MatchesTargetRoles(s, t, m)} :
              t \in TargetedTeams(s, "targetRoles")}

MembersNotMatchingTargetRoles(s) ==
    UNION {{m \in PresentMembers(s, t) : ~MatchesTargetRoles(s, t, m)} :
              t \in TargetedTeams(s, "targetRoles")}

MembersInSkillTargetedTeams(s) ==
    UNION {PresentMembers(s, t) : t \in TargetedTeams(s, "targetSkills")}

MembersMatchingTargetSkills(s) ==
    UNION {{m \in PresentMembers(s, t) : MatchesTargetSkills(s, t, m)} :
              t \in TargetedTeams(s, "targetSkills")}

MembersNotMatchingTargetSkills(s) ==
    UNION {{m \in PresentMembers(s, t) : ~MatchesTargetSkills(s, t, m)} :
              t \in TargetedTeams(s, "targetSkills")}

\* The member counts calculateStatistics returns.
TargetStatistics(s) ==
    [membersMatchingTargetRoles |-> Cardinality(MembersMatchingTargetRoles(s)),
     membersNotMatchingTargetRoles |-> Cardinality(MembersNotMatchingTargetRoles(s)),
     membersMatchingTargetSkills |-> Cardinality(MembersMatchingTargetSkills(s)),
     membersNotMatchingTargetSkills |-> Cardinality(MembersNotMatchingTargetSkills(s))]

\* A team without members, with the target criteria TeamForm saved.
TargetedTeam(id, targetRoles, targetSkills) ==
    Put(Put(Team(id, "Ops", <<>>, 0), "targetRoles", targetRoles),
        "targetSkills", targetSkills)

CoverageMembers ==
    [k \in {"m1", "m2"} |->
        IF k = "m1"
        THEN DropUndefined(Member("m1", "Ann", "r1", <<"s1">>, Undefined, 0))
        ELSE DropUndefined(Member("m2", "Bob", "r2", <<"s2", "s1">>, Undefined, 0))]

\* Two members and two teams; the second team has any of the target criteria.
CoverageStates ==
    {[members |-> CoverageMembers,
      teams |-> [k \in {"t1", "t2"} |->
                    IF k = "t1"
                    THEN TargetedTeam("t1", JsArray(<<"r1">>), JsArray(<<"s2">>))
                    ELSE TargetedTeam("t2", targetRoles, targetSkills)],
      roles |-> SavedRoles,
      skills |-> SavedSkills,
      darkMode |-> FALSE,
      language |-> "en"] :
        targetRoles \in {JsUndefined, JsArray(<<>>), JsArray(<<"r2">>)},
        targetSkills \in {JsUndefined, JsArray(<<"s1">>), JsArray(<<"s2">>)}}

InitCoverage ==
    /\ state \in CoverageStates
    /\ storage = SaveToStorage(state)
    /\ stored0 = storage
    /\ pc = "ready"
    /\ loadResult = LoadFromStorage(storage)
    /\ effectPending = FALSE
    /\ now = 0
    /\ lastAction = [type |-> "INIT"]
    /\ prev = state
    /\ FilterIdle
    /\ PageIdle

NextCoverage ==
    \/ AssignMemberToTeam
    \/ RemoveMemberFromTeam
    \/ DeleteMember
    \/ SaveEffect

SpecCoverage == InitCoverage /\ [][NextCoverage]_vars

TypeOK ==
    /\ pc \in {"mount", "awaitLoad", "ready"}
    /\ now \in 0..MaxNow
    /\ DOMAIN state = {"members", "teams", "roles", "skills", "darkMode", "language"}

----------------------------------------------------------------------------
(* Vocabulary of the properties.                                           *)

Count(seq, x) == Cardinality({i \in 1..Len(seq) : seq[i] = x})

\* after holds the elements of before other than x, as often and in the order
\* in which before holds them.
RemovedExactly(before, after, x) ==
    /\ Count(after, x) = 0
    /\ \A i \in 1..Len(before) :
           before[i] # x => Count(after, before[i]) = Count(before, before[i])
    /\ \A i \in 1..Len(after) : Count(before, after[i]) > 0
    /\ \A i, j \in 1..Len(after) :
           i < j => \E a, b \in 1..Len(before) :
                        a < b /\ before[a] = after[i] /\ before[b] = after[j]

Collections == {"members", "teams", "roles", "skills"}

Settings == {"darkMode", "language"}

AllFields == Collections \cup Settings

\* C1: after DELETE_MEMBER(m), m is not a key of state.members, no team lists m,
\* and every team lists its other member ids as before, in the same order.
C1_DeleteMemberCascades ==
    lastAction.type = "DELETE_MEMBER" =>
        LET m == lastAction.payload IN
        /\ m \notin DOMAIN state.members
        /\ DOMAIN state.teams = DOMAIN prev.teams
        /\ \A t \in DOMAIN state.teams :
               RemovedExactly(prev.teams[t].memberIds, state.teams[t].memberIds, m)

C1_Witness ==
    /\ lastAction.type = "DELETE_MEMBER"
    /\ lastAction.payload \in DOMAIN prev.members
    /\ \E t \in DOMAIN prev.teams :
           /\ Len(prev.teams[t].memberIds) = 3
           /\ prev.teams[t].memberIds[2] = lastAction.payload
           /\ Len(state.teams[t].memberIds) = 2

IsSavedState(store) ==
    /\ store.kind = "json"
    /\ DOMAIN store.value = AllFields

StartupComplete == pc = "ready" /\ now = 0 /\ ~effectPending

C4_AssignNeverDuplicates ==
    lastAction.type = "ASSIGN_MEMBER_TO_TEAM" =>
        LET m == lastAction.payload.memberId
            t == lastAction.payload.teamId
        IN  t \in DOMAIN prev.teams =>
                /\ t \in DOMAIN state.teams
                /\ Count(prev.teams[t].memberIds, m) > 0 => state = prev
                /\ Count(prev.teams[t].memberIds, m) = 0 =>
                       Count(state.teams[t].memberIds, m) = 1

C4_Witness ==
    /\ lastAction.type = "ASSIGN_MEMBER_TO_TEAM"
    /\ lastAction.payload.teamId \in DOMAIN prev.teams
    /\ Count(prev.teams[lastAction.payload.teamId].memberIds,
             lastAction.payload.memberId) = 1
    /\ Count(state.teams[lastAction.payload.teamId].memberIds,
             lastAction.payload.memberId) = 1
    /\ now >= 2

\* C5: REMOVE_MEMBER_FROM_TEAM(m, t) removes m from the memberIds of t and
\* keeps the other ids of t, every other team, the members and every other
\* collection and setting.
C5_RemoveFromTeamFrame ==
    lastAction.type = "REMOVE_MEMBER_FROM_TEAM" =>
        LET m == lastAction.payload.memberId
            t == lastAction.payload.teamId
        IN  /\ \A f \in AllFields \ {"teams"} : state[f] = prev[f]
            /\ DOMAIN state.teams = DOMAIN prev.teams
            /\ \A u \in DOMAIN prev.teams \ {t} : state.teams[u] = prev.teams[u]
            /\ t \in DOMAIN prev.teams =>
                   /\ RemovedExactly(prev.teams[t].memberIds, state.teams[t].memberIds, m)
                   /\ state.teams[t].id = prev.teams[t].id
                   /\ state.teams[t].name = prev.teams[t].name

C5_Witness ==
    /\ lastAction.type = "REMOVE_MEMBER_FROM_TEAM"
    /\ lastAction.payload.teamId \in DOMAIN prev.teams
    /\ lastAction.payload.memberId \in DOMAIN state.members
    /\ Count(prev.teams[lastAction.payload.teamId].memberIds,
             lastAction.payload.memberId) = 1
    /\ Len(state.teams[lastAction.payload.teamId].memberIds) = 2
    /\ \E u \in DOMAIN state.teams \ {lastAction.payload.teamId} :
           Includes(state.teams[u].memberIds, lastAction.payload.memberId)

\* C6: after DELETE_SKILL(s), s is not a key of state.skills, no member lists s,
\* and every member lists its other skill ids as before.
C6_DeleteSkillCascades ==
    lastAction.type = "DELETE_SKILL" =>
        LET sk == lastAction.payload IN
        /\ sk \notin DOMAIN state.skills
        /\ DOMAIN state.members = DOMAIN prev.members
        /\ \A k \in DOMAIN state.members :
               RemovedExactly(prev.members[k].skillIds, state.members[k].skillIds, sk)

C6_Witness ==
    /\ lastAction.type = "DELETE_SKILL"
    /\ lastAction.payload \in DOMAIN prev.skills
    /\ \E k \in DOMAIN prev.members :
           /\ Includes(prev.members[k].skillIds, lastAction.payload)
           /\ Len(state.members[k].skillIds) = 1

\* C7: LOAD_STATE makes the payload the state: members, teams, darkMode and
\* language are the payload's, roles and skills are the payload's when it has
\* them and empty maps when it does not.
C7_LoadStateBackwardCompatible ==
    lastAction.type = "LOAD_STATE" =>
        LET p == lastAction.payload IN
        /\ DOMAIN state = AllFields
        /\ \A f \in AllFields \ {"roles", "skills"} : state[f] = p[f]
        /\ \A f \in {"roles", "skills"} :
               state[f] = IF f \in DOMAIN p THEN p[f] ELSE EmptyMap

C7_Witness ==
    /\ lastAction.type = "LOAD_STATE"
    /\ "roles" \notin DOMAIN lastAction.payload
    /\ "skills" \notin DOMAIN lastAction.payload
    /\ state.roles = EmptyMap
    /\ state.skills = EmptyMap
    /\ state.members = lastAction.payload.members
    /\ DOMAIN state.members # {}

CollectionOf(type) ==
    CASE type \in {"ADD_MEMBER", "UPDATE_MEMBER"} -> "members"
      [] type \in {"ADD_TEAM", "UPDATE_TEAM"} -> "teams"
      [] type \in {"ADD_ROLE", "UPDATE_ROLE"} -> "roles"
      [] type \in {"ADD_SKILL", "UPDATE_SKILL"} -> "skills"

StoreTypes ==
    {"ADD_MEMBER", "UPDATE_MEMBER", "ADD_TEAM", "UPDATE_TEAM",
     "ADD_ROLE", "UPDATE_ROLE", "ADD_SKILL", "UPDATE_SKILL"}

\* C8: ADD_x and UPDATE_x put the payload under payload.id in the collection of
\* x and keep every other entry of it, every other collection and the settings.
C8_AddUpdateFrame ==
    lastAction.type \in StoreTypes =>
        LET c == CollectionOf(lastAction.type)
            p == lastAction.payload
        IN  /\ DOMAIN state[c] = DOMAIN prev[c] \cup {p.id}
            /\ state[c][p.id] = p
            /\ \A k \in DOMAIN prev[c] \ {p.id} : state[c][k] = prev[c][k]
            /\ \A f \in AllFields \ {c} : state[f] = prev[f]

C8_Witness ==
    /\ lastAction.type = "UPDATE_MEMBER"
    /\ lastAction.payload.id \in DOMAIN prev.members
    /\ prev.members[lastAction.payload.id] # lastAction.payload
    /\ state.members[lastAction.payload.id] = lastAction.payload
    /\ Cardinality(DOMAIN state.members) = 2
    /\ DOMAIN state.teams # {}

\* An item passes when the condition of every definition accepts it with the
\* value of each active filter of that definition.
Passes(item) ==
    \A id \in DefinedFilterIds :
        \A k \in 1..Len(activeFilters) :
            activeFilters[k].id = id => Condition(id, item, activeFilters[k].value)

PassingIndexes == {i \in 1..Len(items) : Passes(items[i])}

\* C9: filteredItems holds exactly the items that pass every active filter, in
\* the order of items; with no active filter it is items.
C9_FilteredItemsExact ==
    /\ Len(filteredItems) = Cardinality(PassingIndexes)
    /\ \A k \in 1..Len(filteredItems) :
           \E i \in PassingIndexes :
               /\ Cardinality({j \in PassingIndexes : j < i}) = k - 1
               /\ filteredItems[k] = items[i]
    /\ Len(activeFilters) = 0 => filteredItems = items

C9_Witness ==
    /\ Len(activeFilters) = 2
    /\ activeFilters[1].id = "skills"
    /\ activeFilters[1].value.kind = "array"
    /\ activeFilters[2] = ActiveFilter("role", StringValue("Dev"))
    /\ Len(items) = 2
    /\ Len(filteredItems) = 1
    /\ filteredItems[1] = items[2]
    /\ \E i \in 1..Len(items) : RoleCondition(items[i], activeFilters[2].value)
                                 /\ ~SkillsCondition(items[i], activeFilters[1].value)

\* C10: the active-filter list has at most one entry per filter id, and the
\* entry of an id holds the value applied to it last.
C10_OneEntryPerFilter ==
    /\ \A id \in FilterIds :
           Cardinality({k \in 1..Len(activeFilters) : activeFilters[k].id = id}) <= 1
    /\ \A k \in 1..Len(activeFilters) :
           activeFilters[k].value = lastApplied[activeFilters[k].id]
    /\ \A id \in FilterIds :
           lastApplied[id] # NotApplied =>
               \E k \in 1..Len(activeFilters) : activeFilters[k].id = id

C10_Witness ==
    /\ lastOp = "update"
    /\ Len(activeFilters) = 2
    /\ activeFilters[1] = ActiveFilter("role", ArrayValue(<<"Dev", "Go">>))
    /\ lastApplied["role"] = ArrayValue(<<"Dev", "Go">>)
    /\ activeFilters[2].id = "skills"

\* Every character of the string is white space.
Blank(str) == \A i \in 1..Len(str) : str[i] = " "

\* Pairs of characters that differ in case only.
CasePairs ==
    {{"a", "A"}, {"d", "D"}, {"e", "E"}, {"g", "G"}, {"j", "J"}, {"o", "O"},
     {"q", "Q"}, {"r", "R"}, {"s", "S"}}

SameLetter(a, b) == a = b \/ {a, b} \in CasePairs

\* The term occurs in the string, ignoring case.
Occurs(str, term) ==
    \E i \in 1..Len(str) :
        /\ i + Len(term) - 1 <= Len(str)
        /\ \A k \in 1..Len(term) : SameLetter(str[i + k - 1], term[k])

\* The term occurs in one of these properties of the item, or in an element of
\* one that is an array.
OccursInFields(item, fields, term) ==
    \E f \in fields :
        \/ item[f].kind = "string" /\ Occurs(item[f].value, term)
        \/ item[f].kind = "array" /\
               \E e \in 1..Len(item[f].value) : Occurs(item[f].value[e], term)

\* result holds the items of source whose index is in kept, in source order.
SelectsIndexes(result, source, kept) ==
    /\ Len(result) = Cardinality(kept)
    /\ \A k \in 1..Len(result) :
           \E i \in kept :
               /\ Cardinality({j \in kept : j < i}) = k - 1
               /\ result[k] = source[i]

\* C11: with an empty or white-space-only search term useSearch returns the
\* items it was given, all of them and in the same order.
C11_BlankTermReturnsAll ==
    Blank(searchTerm) => searchResult = searchItems

C11_Witness ==
    /\ searchTerm = <<" ", " ">>
    /\ Len(searchItems) = 2
    /\ searchConfig.customSearchFn = "none"
    /\ searchResult = searchItems

SearchedFields == {searchConfig.searchableFields[k] : k \in 1..Len(searchConfig.searchableFields)}

\* C12: with a non-blank term and no custom search function the result holds
\* exactly the items in which a searchable field, or an element of a searchable
\* array field, contains the term ignoring case; null and undefined fields do
\* not match.
C12_FieldSearchExact ==
    (searchConfig.customSearchFn = "none" /\ ~Blank(searchTerm)) =>
        SelectsIndexes(searchResult, searchItems,
            {i \in 1..Len(searchItems) :
                OccursInFields(searchItems[i], SearchedFields, searchTerm)})

C12_Witness ==
    /\ searchConfig = SearchConfig(<<"email", "skillNames", "roleName">>, "none")
    /\ searchTerm = <<"d", "E">>
    /\ Len(searchItems) = 2
    /\ searchItems[1].id = "m1"
    /\ searchItems[2].id = "m2"
    /\ searchItems[2].email = JsNull
    /\ searchResult = <<searchItems[2]>>

\* C13: on the Members page a member is listed for a search term whenever the
\* term occurs, ignoring case, in the member's name, role name, one of the
\* skill names or email.
C13_MemberSearchCoversAllFields ==
    (searchConfig = MemberSearchConfig /\ ~Blank(searchTerm)) =>
        \A i \in 1..Len(searchItems) :
            OccursInFields(searchItems[i], {"name", "roleName", "skillNames", "email"},
                           searchTerm)
                => \E k \in 1..Len(searchResult) : searchResult[k] = searchItems[i]

\* C14: after the view mode, the rows-per-page value or the search term was
\* changed the current page is 0, whatever the page was before.
C14_ChangeResetsPage ==
    listOp \in {"viewMode", "pageSize", "search"} => page = 0

C14_Witness ==
    /\ listOp = "search"
    /\ pageBefore = 2
    /\ page = 0
    /\ listSearchTerm = <<"d", "E">>
    /\ Len(listItems) = 5

\* ceil(n / rowsPerPage)
NumPages == (Len(listItems) + rowsPerPage - 1) \div rowsPerPage

\* The places <<p, k>> at which the pages 0..NumPages-1 hold item i.
PlacesOf(i) ==
    {pk \in (0..(NumPages - 1)) \X (1..rowsPerPage) :
        LET shown == PaginatedItems(listItems, pk[1], rowsPerPage)
        IN  pk[2] <= Len(shown) /\ shown[pk[2]] = listItems[i]}

\* C15: paginatedItems is the window of items from page*rowsPerPage up to, not
\* including, page*rowsPerPage+rowsPerPage: at most rowsPerPage items, the
\* remaining items on the last page, no item for an empty list, and every
\* item on exactly one of the pages 0..ceil(n/rowsPerPage)-1.
C15_PageWindow ==
    LET n == Len(listItems)
        start == page * rowsPerPage
    IN  /\ Len(paginatedItems) <= rowsPerPage
        /\ Len(paginatedItems) = Max(0, Min(rowsPerPage, n - start))
        /\ \A k \in 1..Len(paginatedItems) : paginatedItems[k] = listItems[start + k]
        /\ n = 0 => paginatedItems = <<>>
        /\ \A i \in 1..n : Cardinality(PlacesOf(i)) = 1

C15_Witness ==
    /\ Len(listItems) = 5
    /\ rowsPerPage = 2
    /\ page = 2
    /\ paginatedItems = <<5>>

\* local@domain.tld, each part non-empty and free of white space and of @.
WellFormedEmail(str) ==
    \E at, dot \in 1..Len(str) :
        /\ at < dot
        /\ str[at] = "@"
        /\ str[dot] = "."
        /\ \A part \in {SubSeq(str, 1, at - 1), SubSeq(str, at + 1, dot - 1),
                        SubSeq(str, dot + 1, Len(str))} :
               /\ Len(part) > 0
               /\ \A i \in 1..Len(part) : part[i] \notin {" ", "@"}

\* The number the text of a number input denotes is greater than zero.
PositiveNumber(str) ==
    /\ Len(str) > 0
    /\ str[1] # "-"
    /\ \E i \in 1..Len(str) : str[i] \in {"1", "5"}

\* No required field is missing, the email is absent or well formed, the target
\* size is absent or a positive number.
FormValid(kind, formData) ==
    IF kind = "member"
    THEN /\ ~Blank(formData["name"])
         /\ ~Blank(formData["role"])
         /\ Blank(formData["email"]) \/ WellFormedEmail(formData["email"])
    ELSE /\ ~Blank(formData["name"])
         /\ ~Blank(formData["description"])
         /\ Blank(formData["targetSize"]) \/ PositiveNumber(formData["targetSize"])

\* C16: onSave is called only from a handleSubmit whose values are valid: every
\* required field present, the email well formed, the target size a positive
\* number; a submit with invalid values calls neither onSubmit nor onSave.
C16_SavedOnlyWhenValid ==
    /\ saved.kind = "data" => FormValid(formKind, saved.formData)
    /\ lastSubmit.called = "yes" =>
           /\ FormValid(formKind, lastSubmit.formData)
           /\ saved.kind = "data"
           /\ saved.formData = lastSubmit.formData
    /\ (lastSubmit.called # "never" /\ ~FormValid(formKind, lastSubmit.formData)) =>
           lastSubmit.called = "no"

C16_Witness ==
    /\ formKind = "team"
    /\ lastSubmit.called = "no"
    /\ ~Blank(lastSubmit.formData["name"])
    /\ ~Blank(lastSubmit.formData["description"])
    /\ lastSubmit.formData["targetSize"] = <<"-", "5">>
    /\ formOpen
    /\ saved.kind = "data"
    /\ saved.formData["targetSize"] = <<"1", "0">>

\* C17: the irrelevant-members warning is shown whenever the team has target
\* roles and lists a member whose role is not one of them, whatever the target
\* skills of the team are.
C17_RoleMismatchWarns ==
    (/\ dialogTeam.targetRoles.kind = "array"
     /\ Len(dialogTeam.targetRoles.value) > 0
     /\ \E k \in 1..Len(teamMembers) :
            \A r \in 1..Len(dialogTeam.targetRoles.value) :
                dialogTeam.targetRoles.value[r] # teamMembers[k].roleId)
        => hasIrrelevant

\* The two names are equal ignoring case.
EqualIgnoringCase(a, b) ==
    /\ Len(a) = Len(b)
    /\ \A i \in 1..Len(a) : SameLetter(a[i], b[i])

NoCaseDuplicates(collection) ==
    \A j, k \in DOMAIN collection :
        j # k => ~EqualIgnoringCase(collection[j].name, collection[k].name)

\* C18: after member and team saves that resolve names through
\* getOrCreateRoleId, getOrCreateSkillId and getOrCreateSkillIds, no two roles
\* and no two skills have names that are equal ignoring case.
C18_NoDuplicateNames ==
    /\ NoCaseDuplicates(state.roles)
    /\ NoCaseDuplicates(state.skills)

\* The members whose skillIds contain the id.
MembersWithSkill(s, skillId) ==
    {id \in DOMAIN s.members :
        \E k \in 1..Len(s.members[id].skillIds) : s.members[id].skillIds[k] = skillId}

\* C19: skillDistribution maps each skill name to the number of members who
\* have that skill: the entry of a skill of state.skills held by a member is
\* the number of members whose skillIds contain its id, and a skill held by no
\* member has no entry.
C19_SkillDistributionCountsMembers ==
    \A skillId \in DOMAIN state.skills :
        LET name == state.skills[skillId].name
            holders == MembersWithSkill(state, skillId)
        IN  IF holders = {}
            THEN name \notin DOMAIN SkillDistribution(state)
            ELSE /\ name \in DOMAIN SkillDistribution(state)
                 /\ SkillDistribution(state)[name] = Cardinality(holders)

\* The app was started again and nothing was dispatched since its load effect.
RestartComplete ==
    /\ pc = "ready"
    /\ lastAction.type \in {"INIT", "LOAD_STATE"}
    /\ atExit.outcome # "none"

\* C20: when writing the state to localStorage fails, the state is saved to
\* the fallback store instead, so the change is persisted: at the next start
\* the state whose write failed is restored.
C20_FailedWriteIsRestored ==
    (RestartComplete /\ atExit.outcome = "failed") => Stringify(state) = atExit.data

\* The ids of the list that generateId returned in the last save: those that
\* were not keys of the collection the names were resolved in.
GeneratedIn(ids, collection) ==
    {k \in 1..Len(ids) : ids[k] \notin DOMAIN collection}

AllDifferent(ids, positions) ==
    \A j, k \in positions : j # k => ids[j] # ids[k]

\* C21: every call of generateId returns an id different from the ids of
\* earlier calls, also within one millisecond: the ids one save generated for
\* new skills or new roles are pairwise different, so no ADD_SKILL or ADD_ROLE
\* of the save overwrites the record of another.
C21_GeneratedIdsDiffer ==
    /\ lastAction.type = "ADD_MEMBER" =>
           AllDifferent(lastAction.payload.skillIds,
                        GeneratedIn(lastAction.payload.skillIds, prev.skills))
    /\ (lastAction.type = "ADD_TEAM" /\ lastAction.payload.targetRoles.kind = "array") =>
           AllDifferent(lastAction.payload.targetRoles.value,
                        GeneratedIn(lastAction.payload.targetRoles.value, prev.roles))

C23_CoverageCountsEachMemberOnce ==
    /\ TargetStatistics(state).membersMatchingTargetRoles
           + TargetStatistics(state).membersNotMatchingTargetRoles
       = Cardinality(MembersInRoleTargetedTeams(state))
    /\ TargetStatistics(state).membersMatchingTargetSkills
           + TargetStatistics(state).membersNotMatchingTargetSkills
       = Cardinality(MembersInSkillTargetedTeams(state))

====
